---- MODULE Spec2Model ----
(***************************************************************************)
(* A model of package chartjs (chart.go): the chart builder (AddDataset,   *)
(* AddAxis, AddXAxis, AddYAxis), the numeric series encoder                *)
(* (marshalValuesJSON), the Dataset encoder (Dataset.MarshalJSON) and the  *)
(* encoding of a whole Chart.                                              *)
(*                                                                         *)
(* Bytes are modelled as sequences of tokens: each token is the exact text *)
(* the code writes ("{", "\"x\"", ":", "1.00", " ", "null", ...), and the  *)
(* concatenation of the tokens (String) is the byte string of the code.    *)
(* A float64 is a record [nan, n]: NaN, or the whole number n.             *)
(***************************************************************************)
EXTENDS Integers, Sequences, FiniteSets, TLC

VARIABLES
    Datasets,       \* c.Data.Datasets: the sequence of Dataset values
    ScalesNil,      \* c.Options.Scales == nil
    Scales,         \* c.Options.Scales: a function from axis IDs to Axis
    XFloatFormat,   \* the package variable XFloatFormat
    YFloatFormat,   \* the package variable YFloatFormat
    ret,            \* the last call on the chart: its name, argument and results
    added,          \* history: the successful axis adds, in call order
    dsLog,          \* history: the arguments of the AddDataset calls, in call order
    lastEnc,        \* the result of the last encode since the last builder call
    arg,            \* the input of the pure function under check
    res             \* its result

vars == <<Datasets, ScalesNil, Scales, XFloatFormat, YFloatFormat, ret, added,
          dsLog, lastEnc, arg, res>>

chartVars == <<Datasets, ScalesNil, Scales>>

----------------------------------------------------------------------------
(* Bounds of the model *)

\* longest X, Y or R sequence of a Values payload under SpecValues
MaxLen == 2
\* longest X, Y or R sequence of a Values payload under SpecDataset
MaxDataLen == 1
\* most successful builder calls (datasets appended plus axes added) on a chart
MaxCalls == 2

----------------------------------------------------------------------------
(* Program constants *)

Line == 0
Bar == 1
Bubble == 2

Bottom == 1
Top == 2
Left == 3
Right == 4

chartTypes == <<"line", "bar", "bubble">>

axisTypes == <<"category", "linear", "logarithmic", "time", "radialLinear">>

axisPositions == <<"", "bottom", "top", "left", "right">>

\* a nil error
NoErr == "nil"

ErrBadValues == "chart: bad format of Values data"
ErrRLength == "chart: bad format of Values. All axes must be of the same length"
ErrXYLength == "chart: bad format of Values. X and Y must be of the same length"
ErrXAxis == "chart: added x-axis to left or right"
ErrYAxis == "chart: added y-axis to top or bottom"

\* the initial values of the package variables
DefaultXFloatFormat == "%.2f"
DefaultYFloatFormat == "%.2f"

----------------------------------------------------------------------------
(* float64 values and their formatting *)

NaN == [nan |-> TRUE, n |-> 0]

Float(n) == [nan |-> FALSE, n |-> n]

IsNaN(f) == f.nan

\* the float64 values of the model
Floats == {Float(1), Float(-2), NaN}

\* the format strings of the model: the package defaults can be set to one of
\* GlobalFormats, a dataset's own format is "" (unset) or one of OwnFormats
GlobalFormats == {"%.2f", "%.0f"}
OwnFormats == {"%.1f"}
Formats == GlobalFormats \cup OwnFormats

\* the precision of a format verb "%.Nf"
Precision(format) ==
    CASE format = "%.2f" -> 2
      [] format = "%.1f" -> 1
      [] format = "%.0f" -> 0

RECURSIVE Zeros(_)
Zeros(k) == IF k = 0 THEN "" ELSE "0" \o Zeros(k - 1)

\* fmt.Sprintf(format, f) for a verb "%.Nf": NaN prints as NaN, a whole number
\* with N zero decimals
Sprintf(format, f) ==
    IF IsNaN(f) THEN "NaN"
    ELSE IF Precision(format) = 0 THEN ToString(f.n)
    ELSE ToString(f.n) \o "." \o Zeros(Precision(format))

\* the byte string of a token sequence
RECURSIVE String(_)
String(toks) == IF toks = <<>> THEN "" ELSE Head(toks) \o String(Tail(toks))

----------------------------------------------------------------------------
(* marshalValuesJSON *)

\* one element of the x, y, r form
ElemXYR(x, y, r, xformat, yformat) ==
    IF IsNaN(y)
    THEN <<"{", "\"x\"", ":", Sprintf(xformat, x), ",", "\"y\"", ":", " ", "null",
           ",", "\"r\"", ":", Sprintf(yformat, r), "}">>
    ELSE <<"{", "\"x\"", ":", Sprintf(xformat, x), ",", "\"y\"", ":",
           Sprintf(yformat, y), ",", "\"r\"", ":", Sprintf(yformat, r), "}">>

\* one element of the x, y form
ElemXY(x, y, xformat, yformat) ==
    IF IsNaN(y)
    THEN <<"{", "\"x\"", ":", Sprintf(xformat, x), ",", "\"y\"", ":", " ", "null",
           " ", "}">>
    ELSE <<"{", "\"x\"", ":", Sprintf(xformat, x), ",", "\"y\"", ":",
           Sprintf(yformat, y), "}">>

\* the separator written before element i (1-based)
Comma(i) == IF i > 1 THEN <<",">> ELSE <<>>

\* the loop over xs of the x, y, r form, from element i on
RECURSIVE LoopXYR(_, _, _, _, _, _)
LoopXYR(xs, ys, rs, xformat, yformat, i) ==
    IF i > Len(xs) THEN <<>>
    ELSE Comma(i) \o ElemXYR(xs[i], ys[i], rs[i], xformat, yformat)
         \o LoopXYR(xs, ys, rs, xformat, yformat, i + 1)

\* the loop over xs of the x, y form, from element i on
RECURSIVE LoopXY(_, _, _, _, _)
LoopXY(xs, ys, xformat, yformat, i) ==
    IF i > Len(xs) THEN <<>>
    ELSE Comma(i) \o ElemXY(xs[i], ys[i], xformat, yformat)
         \o LoopXY(xs, ys, xformat, yformat, i + 1)

\* the loop over xs of the bare form, from element i on
RECURSIVE LoopX(_, _, _)
LoopX(xs, xformat, i) ==
    IF i > Len(xs) THEN <<>>
    ELSE Comma(i) \o <<Sprintf(xformat, xs[i])>> \o LoopX(xs, xformat, i + 1)

Failed(err) == [bytes |-> <<>>, err |-> err]

Ok(bytes) == [bytes |-> bytes, err |-> NoErr]

XYLengthsDifferOneWay(xs, ys) == Len(xs) > Len(ys)

\* len(xs) != len(ys)
XYLengthsDiffer(xs, ys) == Len(xs) # Len(ys)

\* v is a Values: [X, Y, R], the results of v.Xs(), v.Ys(), v.Rs()
marshalValuesJSON(v, xformat, yformat) ==
    IF Len(v.X) = 0 /\ Len(v.R) # 0 THEN Failed(ErrBadValues)
    ELSE
      LET xs == IF Len(v.X) = 0 THEN v.Y ELSE v.X
          ys == IF Len(v.X) = 0 THEN <<>> ELSE v.Y
          rs == v.R
      IN  IF Len(rs) > 0
          THEN IF Len(xs) # Len(ys) \/ Len(xs) # Len(rs)
               THEN Failed(ErrRLength)
               ELSE Ok(<<"[">> \o LoopXYR(xs, ys, rs, xformat, yformat, 1) \o <<"]">>)
          ELSE IF Len(ys) > 0
          THEN IF XYLengthsDiffer(xs, ys)
               THEN Failed(ErrXYLength)
               ELSE Ok(<<"[">> \o LoopXY(xs, ys, xformat, yformat, 1) \o <<"]">>)
          ELSE Ok(<<"[">> \o LoopX(xs, xformat, 1) \o <<"]">>)

----------------------------------------------------------------------------
(* JSON texts, as encoding/json checks the output of a json.Marshaler *)

Quote(s) == "\"" \o s \o "\""

\* the strings that occur in the documents of the model
JSONStrings ==
    {Quote(s) : s \in {"", "a", "x", "y", "r", "data", "type", "line", "bar", "bubble",
                       "borderWidth", "label", "lineTension", "pointBorderWidth",
                       "pointRadius", "pointHitRadius", "pointHoverRadius",
                       "pointHoverBorderWidth", "series"}}

\* the numbers that occur in the documents of the model; NaN is no JSON number
JSONNumbers ==
    {Sprintf(f, x) : f \in Formats, x \in Floats \ {NaN}} \cup {"0", "1", "2"}

IsScalar(t) == t \in JSONStrings \cup JSONNumbers \cup {"null", "true", "false"}

\* the first position from i on that holds no white space
RECURSIVE SkipSpace(_, _)
SkipSpace(t, i) ==
    IF i <= Len(t) /\ t[i] = " " THEN SkipSpace(t, i + 1) ELSE i

\* the first byte of a token
FirstByte(tok) ==
    CASE tok \in {"{", "}", "[", "]", ",", ":"} -> tok
      [] tok \in JSONStrings -> "\""
      [] tok = "NaN" -> "N"
      [] tok = "null" -> "n"
      [] tok = "true" -> "t"
      [] tok = "false" -> "f"
      [] OTHER ->
            LET xs == {x \in Floats \ {NaN} : \E f \in Formats : tok = Sprintf(f, x)}
                x == CHOOSE y \in xs : TRUE
            IN  IF xs = {} THEN tok
                ELSE IF x.n < 0 THEN "-" ELSE ToString(x.n)

\* the result of a scan: the position after the text read, or the error of the
\* scanner at the first byte that cannot continue the text
Scanned(pos) == [ok |-> TRUE, pos |-> pos, msg |-> ""]

\* json's SyntaxError at position i of t, where the scanner was in state context
SyntaxErrorAt(t, i, context) ==
    [ok |-> FALSE, pos |-> i,
     msg |-> IF i > Len(t) THEN "unexpected end of JSON input"
             ELSE "invalid character '" \o FirstByte(t[i]) \o "' " \o context]

\* ParseValue(t, i): the scan of the JSON value that starts at i; ParseMembers and
\* ParseElements continue an object and an array
RECURSIVE ParseValue(_, _), ParseMembers(_, _), ParseElements(_, _)
ParseValue(t, i) ==
    LET j == SkipSpace(t, i)
    IN  IF j > Len(t) THEN SyntaxErrorAt(t, j, "")
        ELSE IF IsScalar(t[j]) THEN Scanned(j + 1)
        ELSE IF t[j] = "{"
        THEN LET k == SkipSpace(t, j + 1)
             IN  IF k <= Len(t) /\ t[k] = "}" THEN Scanned(k + 1)
                 ELSE ParseMembers(t, k)
        ELSE IF t[j] = "["
        THEN LET k == SkipSpace(t, j + 1)
             IN  IF k <= Len(t) /\ t[k] = "]" THEN Scanned(k + 1)
                 ELSE ParseElements(t, k)
        ELSE SyntaxErrorAt(t, j, "looking for beginning of value")

ParseMembers(t, i) ==
    LET c == SkipSpace(t, i + 1)
    IN  IF i > Len(t) \/ t[i] \notin JSONStrings
        THEN SyntaxErrorAt(t, i, "looking for beginning of object key string")
        ELSE IF c > Len(t) \/ t[c] # ":"
        THEN SyntaxErrorAt(t, c, "after object key")
        ELSE LET e == ParseValue(t, c + 1)
                 n == SkipSpace(t, e.pos)
             IN  IF ~e.ok THEN e
                 ELSE IF n <= Len(t) /\ t[n] = "}" THEN Scanned(n + 1)
                 ELSE IF n <= Len(t) /\ t[n] = ","
                 THEN ParseMembers(t, SkipSpace(t, n + 1))
                 ELSE SyntaxErrorAt(t, n, "after object key:value pair")

ParseElements(t, i) ==
    LET e == ParseValue(t, i)
        n == SkipSpace(t, e.pos)
    IN  IF ~e.ok THEN e
        ELSE IF n <= Len(t) /\ t[n] = "]" THEN Scanned(n + 1)
        ELSE IF n <= Len(t) /\ t[n] = "," THEN ParseElements(t, n + 1)
        ELSE SyntaxErrorAt(t, n, "after array element")

\* the scan of t as exactly one JSON value
Parse(t) ==
    LET e == ParseValue(t, 1)
        n == SkipSpace(t, e.pos)
    IN  IF ~e.ok THEN e
        ELSE IF n = Len(t) + 1 THEN e
        ELSE SyntaxErrorAt(t, n, "after top-level value")

\* t is exactly one JSON value
ValidJSON(t) == Parse(t).ok

\* the text of the error json reports for a text that is no JSON value
SyntaxError(t) == Parse(t).msg

\* json's compact: the text without its white space
RECURSIVE Compact(_)
Compact(t) ==
    IF t = <<>> THEN <<>>
    ELSE IF Head(t) = " " THEN Compact(Tail(t))
    ELSE <<Head(t)>> \o Compact(Tail(t))

----------------------------------------------------------------------------
(* Dataset and Dataset.MarshalJSON *)

\* A payload (Dataset.Data) is [raw, rawOut, values, X, Y, R]: raw says that it is
\* a json.Marshaler, whose MarshalJSON returns rawOut; values says that it is a
\* Values with the sequences X, Y, R.  nil has neither capability.
Payload(raw, rawOut, values, v) ==
    [raw |-> raw, rawOut |-> rawOut, values |-> values, X |-> v.X, Y |-> v.Y, R |-> v.R]

NoValues == [X |-> <<>>, Y |-> <<>>, R |-> <<>>]

NilPayload == Payload(FALSE, Failed(NoErr), FALSE, NoValues)

ErrRaw == "payload: cannot marshal"

\* what the MarshalJSON of a json.Marshaler payload returns: a JSON text, or an error
RawOutputs ==
    { Ok(<<"[", "1", ",", "2", "]">>),
      Ok(<<"{", "\"data\"", ":", "1", "}">>),
      Failed(ErrRaw) }

\* json.Marshal(alias(d)): the styling fields, in the order of the struct. The
\* fields the model leaves at their zero value are omitted (omitempty) or 0.
MarshalAlias(d) ==
    <<"{">>
    \o (IF d.Type # Line THEN <<"\"type\"", ":", Quote(chartTypes[d.Type + 1]), ",">>
        ELSE <<>>)
    \o <<"\"borderWidth\"", ":", ToString(d.BorderWidth)>>
    \o (IF d.Label # "" THEN <<",", "\"label\"", ":", Quote(d.Label)>> ELSE <<>>)
    \o <<",", "\"lineTension\"", ":", "0",
         ",", "\"pointBorderWidth\"", ":", "0",
         ",", "\"pointRadius\"", ":", "0",
         ",", "\"pointHitRadius\"", ":", "0",
         ",", "\"pointHoverRadius\"", ":", "0",
         ",", "\"pointHoverBorderWidth\"", ":", "0", "}">>

\* buf[len(buf)-1] = ','
ReplaceLast(buf) ==
    IF Len(buf) > 0 THEN [buf EXCEPT ![Len(buf)] = ","] ELSE buf

\* the format in use: the dataset's own, or the package variable
FormatOr(own, default) == IF own = "" THEN default ELSE own

EncoderValuesFirst(data) ==
    IF data.values THEN "values" ELSE IF data.raw THEN "raw" ELSE "none"

\* the payload encoder Dataset.MarshalJSON selects: "raw", "values" or "none"
Encoder(data) ==
    IF data.raw THEN "raw" ELSE IF data.values THEN "values" ELSE "none"

\* o, err of Dataset.MarshalJSON: the encoding of the payload
MarshalData(data, xf, yf) ==
    CASE Encoder(data) = "raw" -> data.rawOut
      [] Encoder(data) = "values" ->
            marshalValuesJSON([X |-> data.X, Y |-> data.Y, R |-> data.R], xf, yf)
      [] OTHER -> Ok(<<>>)

\* Dataset.MarshalJSON, reading the package variables XFloatFormat, YFloatFormat
Dataset_MarshalJSON(d) ==
    LET xf == FormatOr(d.XFloatFormat, XFloatFormat)
        yf == FormatOr(d.YFloatFormat, YFloatFormat)
        o == MarshalData(d.Data, xf, yf)
    IN  IF o.err # NoErr THEN Failed(o.err)
        ELSE Ok(ReplaceLast(MarshalAlias(d)) \o <<"\"data\"", ":">> \o o.bytes \o <<"}">>)

----------------------------------------------------------------------------
(* The inputs of the model *)

\* the sequences over S of length at most n
SeqsUpTo(S, n) == UNION {[1..k -> S] : k \in 0..n}

\* The Values payloads with sequences of length at most n. X and R hold numbers
\* only (a NaN there is the caller's error); Y may hold NaN.
ValuesUpTo(n) ==
    [X : SeqsUpTo(Floats \ {NaN}, n), Y : SeqsUpTo(Floats, n),
     R : SeqsUpTo(Floats \ {NaN}, n)]

\* the Values payloads of a Dataset under SpecDataset
DataValues ==
    [X : SeqsUpTo({Float(1)}, MaxDataLen), Y : SeqsUpTo({Float(1), NaN}, MaxDataLen),
     R : SeqsUpTo({Float(1)}, MaxDataLen)]

\* the payloads: nil, a json.Marshaler, a Values, and a value that is both
Payloads ==
    {NilPayload}
    \cup {Payload(TRUE, r, FALSE, NoValues) : r \in RawOutputs}
    \cup {Payload(FALSE, Failed(NoErr), TRUE, v) : v \in DataValues}
    \cup {Payload(TRUE, r, TRUE, v) :
            r \in RawOutputs,
            v \in {[X |-> <<Float(1)>>, Y |-> <<>>, R |-> <<>>],
                   [X |-> <<>>, Y |-> <<>>, R |-> <<Float(1)>>]}}

DatasetInputs ==
    [Data : Payloads, Type : {Line, Bar}, BorderWidth : {0, 2}, Label : {"", "data"},
     XFloatFormat : {""} \cup OwnFormats, YFloatFormat : {""} \cup OwnFormats]

NewDataset(data, type, label, xf, yf) ==
    [Data |-> data, Type |-> type, BorderWidth |-> 0, Label |-> label,
     XFloatFormat |-> xf, YFloatFormat |-> yf]

\* the datasets added to a chart: one with a Values payload and no format of its
\* own, one with a json.Marshaler payload, and one with a nil payload
DatasetArgs ==
    { NewDataset(Payload(FALSE, Failed(NoErr), TRUE,
                         [X |-> <<Float(1)>>, Y |-> <<Float(-2)>>, R |-> <<>>]),
                 Line, "series", "", ""),
      NewDataset(Payload(TRUE, Ok(<<"[", "1", ",", "2", "]">>), FALSE, NoValues),
                 Bar, "", "", ""),
      NewDataset(NilPayload, Line, "", "", "") }

\* An Axis is [ID, Position]; the other fields stay at their zero value
AxisArgs == [ID : {"", "a"}, Position : 0..Right]

NoAxis == [ID |-> "", Position |-> 0]

----------------------------------------------------------------------------
(* The encoding of a Chart: json.Marshal(c) *)

ErrMarshaler == "json: error calling MarshalJSON for type chartjs.Dataset: "

\* json.Marshal of one Dataset of the chart: it calls Dataset.MarshalJSON, fails
\* with its error or when its output is no JSON text, and compacts the output
MarshalDataset(d) ==
    LET b == Dataset_MarshalJSON(d)
    IN  IF b.err # NoErr THEN Failed(ErrMarshaler \o b.err)
        ELSE IF ~ValidJSON(b.bytes) THEN Failed(ErrMarshaler \o SyntaxError(b.bytes))
        ELSE Ok(Compact(b.bytes))

\* the elements of the "datasets" array from dataset i on
RECURSIVE MarshalDatasets(_, _)
MarshalDatasets(ds, i) ==
    IF i > Len(ds) THEN Ok(<<>>)
    ELSE LET b == MarshalDataset(ds[i])
             rest == MarshalDatasets(ds, i + 1)
         IN  IF b.err # NoErr THEN b
             ELSE IF rest.err # NoErr THEN rest
             ELSE Ok(Comma(i) \o b.bytes \o rest.bytes)

\* the keys of a map in the order json.Marshal writes them (sorted)
KeyOrder == <<"", "a", "x", "y">>

\* json.Marshal of an Axis: ID is not written, Position is omitted when unset
MarshalAxis(axis) ==
    <<"{", "\"type\"", ":", Quote(axisTypes[1])>>
    \o (IF axis.Position # 0
        THEN <<",", "\"position\"", ":", Quote(axisPositions[axis.Position + 1])>>
        ELSE <<>>)
    \o <<",", "\"title\"", ":", "{", "}", "}">>

\* the members of the "scales" object from key KeyOrder[i] on
RECURSIVE MarshalScales(_, _, _)
MarshalScales(m, i, first) ==
    IF i > Len(KeyOrder) THEN <<>>
    ELSE IF KeyOrder[i] \notin DOMAIN m THEN MarshalScales(m, i + 1, first)
    ELSE (IF first THEN <<>> ELSE <<",">>)
         \o <<Quote(KeyOrder[i]), ":">> \o MarshalAxis(m[KeyOrder[i]])
         \o MarshalScales(m, i + 1, FALSE)

\* json.Marshal(c) of the chart with datasets ds and scales m
MarshalChart(ds, m) ==
    LET d == MarshalDatasets(ds, 1)
    IN  IF d.err # NoErr THEN d
        ELSE Ok(<<"{", "\"type\"", ":", Quote(chartTypes[Line + 1]), ",",
                  "\"data\"", ":", "{", "\"datasets\"", ":">>
                \o (IF Len(ds) = 0 THEN <<"null">> ELSE <<"[">> \o d.bytes \o <<"]">>)
                \o <<",", "\"labels\"", ":", "null", "}", ",", "\"options\"", ":", "{">>
                \o (IF DOMAIN m # {}
                    THEN <<"\"scales\"", ":", "{">> \o MarshalScales(m, 1, TRUE)
                         \o <<"}", ",">>
                    ELSE <<>>)
                \o <<"\"animation\"", ":", "{", "\"duration\"", ":", "0", "}", "}", "}">>)

----------------------------------------------------------------------------
(* The chart builder *)

\* the result of a call: its name, its Axis or Dataset argument as given, and the
\* (id, error) it returns
Ret(op, axis, ds, id, err) ==
    [op |-> op, axis |-> axis, ds |-> ds, id |-> id, err |-> err]

NotEncoded ==
    [done |-> FALSE, out |-> Failed(NoErr), xf |-> "", yf |-> "", stable |-> FALSE]

\* the model stops adding to a chart after MaxCalls successful builder calls
Budget == Len(added) + Len(Datasets) < MaxCalls

PrependDataset(ds, d) == <<d>> \o ds

\* append(c.Data.Datasets, d)
AppendDataset(ds, d) == Append(ds, d)

PutIfAbsent(m, k, axis) ==
    [x \in DOMAIN m \cup {k} |-> IF x \in DOMAIN m THEN m[x] ELSE axis]

\* c.Options.Scales[k] = axis
Put(m, k, axis) == [x \in DOMAIN m \cup {k} |-> IF x = k THEN axis ELSE m[x]]

DefaultIDKeep(id, def) == id

\* if x.ID == "" { x.ID = def }
DefaultID(id, def) == IF id = "" THEN def ELSE id

XAxisRejectedLeft(x) == x.Position = Left

\* x.Position == Left || x.Position == Right
XAxisRejected(x) == x.Position = Left \/ x.Position = Right

\* y.Position == Top || y.Position == Bottom
YAxisRejected(y) == y.Position = Top \/ y.Position = Bottom

\* the body of Chart.AddAxis, on behalf of the call op
DoAddAxis(op, axis) ==
    /\ ScalesNil' = FALSE
    /\ Scales' = Put(Scales, axis.ID, axis)
    /\ added' = Append(added, [op |-> op, axis |-> axis])
    /\ lastEnc' = NotEncoded
    /\ UNCHANGED <<Datasets, dsLog>>

AddDataset ==
    \E d \in DatasetArgs :
        /\ Budget
        /\ Datasets' = AppendDataset(Datasets, d)
        /\ dsLog' = Append(dsLog, d)
        /\ ret' = Ret("AddDataset", NoAxis, <<d>>, "", NoErr)
        /\ lastEnc' = NotEncoded
        /\ UNCHANGED <<ScalesNil, Scales, XFloatFormat, YFloatFormat, added, arg, res>>

AddAxis ==
    \E axis \in AxisArgs :
        /\ Budget
        /\ DoAddAxis("AddAxis", axis)
        /\ ret' = Ret("AddAxis", axis, <<>>, "", NoErr)
        /\ UNCHANGED <<XFloatFormat, YFloatFormat, arg, res>>

AddXAxis ==
    \E axis \in AxisArgs :
        LET x == [axis EXCEPT !.ID = DefaultID(axis.ID, "x")]
        IN  /\ IF XAxisRejected(x)
               THEN /\ ret' = Ret("AddXAxis", axis, <<>>, "", ErrXAxis)
                    /\ UNCHANGED <<Datasets, ScalesNil, Scales, added, dsLog, lastEnc>>
               ELSE /\ Budget
                    /\ DoAddAxis("AddXAxis", x)
                    /\ ret' = Ret("AddXAxis", axis, <<>>, x.ID, NoErr)
            /\ UNCHANGED <<XFloatFormat, YFloatFormat, arg, res>>

AddYAxis ==
    \E axis \in AxisArgs :
        LET y == [axis EXCEPT !.ID = DefaultID(axis.ID, "y")]
        IN  /\ IF YAxisRejected(y)
               THEN /\ ret' = Ret("AddYAxis", axis, <<>>, "", ErrYAxis)
                    /\ UNCHANGED <<Datasets, ScalesNil, Scales, added, dsLog, lastEnc>>
               ELSE /\ Budget
                    /\ DoAddAxis("AddYAxis", y)
                    /\ ret' = Ret("AddYAxis", axis, <<>>, y.ID, NoErr)
            /\ UNCHANGED <<XFloatFormat, YFloatFormat, arg, res>>

----------------------------------------------------------------------------
(* Encoding the chart, and the package variables *)

AfterMarshalStore(ds) ==
    [i \in 1..Len(ds) |->
        [ds[i] EXCEPT !.XFloatFormat = FormatOr(@, XFloatFormat),
                      !.YFloatFormat = FormatOr(@, YFloatFormat)]]

\* the datasets of the chart after an encode: Dataset.MarshalJSON has a value
\* receiver and assigns the formats in use to locals, so the chart keeps its values
AfterMarshal(ds) == ds

\* json.Marshal(c); stable records that the encode before it was of the same
\* chart under the same package variables
EncodeChart ==
    /\ lastEnc' = [done |-> TRUE, out |-> MarshalChart(Datasets, Scales),
                   xf |-> XFloatFormat, yf |-> YFloatFormat,
                   stable |-> /\ lastEnc.done
                              /\ lastEnc.xf = XFloatFormat
                              /\ lastEnc.yf = YFloatFormat]
    /\ Datasets' = AfterMarshal(Datasets)
    /\ ret' = Ret("Marshal", NoAxis, <<>>, "", MarshalChart(Datasets, Scales).err)
    /\ UNCHANGED <<ScalesNil, Scales, XFloatFormat, YFloatFormat, added, dsLog, arg, res>>

\* the host program assigns the package variable XFloatFormat
SetXFloatFormat ==
    \E f \in GlobalFormats :
        /\ XFloatFormat' = f
        /\ ret' = Ret("SetXFloatFormat", NoAxis, <<>>, "", NoErr)
        /\ UNCHANGED <<Datasets, ScalesNil, Scales, YFloatFormat, added, dsLog, lastEnc,
                       arg, res>>

\* the host program assigns the package variable YFloatFormat
SetYFloatFormat ==
    \E f \in GlobalFormats :
        /\ YFloatFormat' = f
        /\ ret' = Ret("SetYFloatFormat", NoAxis, <<>>, "", NoErr)
        /\ UNCHANGED <<Datasets, ScalesNil, Scales, XFloatFormat, added, dsLog, lastEnc,
                       arg, res>>

----------------------------------------------------------------------------
(* The specifications *)

NotCalled == [done |-> FALSE, out |-> Failed(NoErr)]

\* a new Chart: no datasets, a nil Scales map
InitChart ==
    /\ Datasets = <<>>
    /\ ScalesNil = TRUE
    /\ Scales = [k \in {} |-> NoAxis]
    /\ ret = Ret("new", NoAxis, <<>>, "", NoErr)
    /\ added = <<>>
    /\ dsLog = <<>>
    /\ lastEnc = NotEncoded

Init ==
    /\ InitChart
    /\ XFloatFormat = DefaultXFloatFormat
    /\ YFloatFormat = DefaultYFloatFormat
    /\ arg = [fn |-> "none"]
    /\ res = NotCalled

Next ==
    \/ AddDataset
    \/ AddAxis
    \/ AddXAxis
    \/ AddYAxis

\* a chart under construction: any sequence of builder calls
Spec == Init /\ [][Next]_vars

NextEncode ==
    \/ AddDataset
    \/ AddXAxis
    \/ EncodeChart
    \/ SetXFloatFormat
    \/ SetYFloatFormat

\* a chart that is built, encoded at any time and any number of times, while the
\* host program assigns the package variables
SpecEncode == Init /\ [][NextEncode]_vars

\* marshalValuesJSON applied to a Values payload and two formats
InitValues ==
    /\ InitChart
    /\ XFloatFormat = DefaultXFloatFormat
    /\ YFloatFormat = DefaultYFloatFormat
    /\ arg \in [fn : {"marshalValuesJSON"}, v : ValuesUpTo(MaxLen),
                xformat : GlobalFormats, yformat : {"%.2f"} \cup OwnFormats]
    /\ res = NotCalled

CallMarshalValues ==
    /\ arg.fn = "marshalValuesJSON"
    /\ ~res.done
    /\ res' = [done |-> TRUE, out |-> marshalValuesJSON(arg.v, arg.xformat, arg.yformat)]
    /\ UNCHANGED <<Datasets, ScalesNil, Scales, XFloatFormat, YFloatFormat, ret, added,
                   dsLog, lastEnc, arg>>

NextValues == CallMarshalValues

SpecValues == InitValues /\ [][NextValues]_vars

\* Dataset.MarshalJSON applied to a Dataset, under any package variables
InitDataset ==
    /\ InitChart
    /\ XFloatFormat \in GlobalFormats
    /\ YFloatFormat \in GlobalFormats
    /\ arg \in [fn : {"Dataset.MarshalJSON"}, d : DatasetInputs]
    /\ res = NotCalled

CallDatasetMarshal ==
    /\ arg.fn = "Dataset.MarshalJSON"
    /\ ~res.done
    /\ res' = [done |-> TRUE, out |-> Dataset_MarshalJSON(arg.d)]
    /\ UNCHANGED <<Datasets, ScalesNil, Scales, XFloatFormat, YFloatFormat, ret, added,
                   dsLog, lastEnc, arg>>

NextDataset == CallDatasetMarshal

SpecDataset == InitDataset /\ [][NextDataset]_vars

----------------------------------------------------------------------------
(* Reading an encoded text back, for the properties below *)

\* the elements of the array text t = [ e1 , e2 , ... ]: the token sequences
\* between its top-level commas (an empty one where a comma leads, trails or doubles)
RECURSIVE Split(_, _, _, _, _)
Split(t, i, depth, cur, acc) ==
    IF i > Len(t) - 1 THEN (IF Len(t) = 2 THEN <<>> ELSE Append(acc, cur))
    ELSE IF t[i] = "," /\ depth = 0 THEN Split(t, i + 1, 0, <<>>, Append(acc, cur))
    ELSE Split(t, i + 1,
               depth + (IF t[i] \in {"{", "["} THEN 1
                        ELSE IF t[i] \in {"}", "]"} THEN -1 ELSE 0),
               Append(cur, t[i]), acc)

Elements(t) == Split(t, 2, 0, <<>>, <<>>)

\* e is an object text { k1 : v1 , ... , km : vm } of scalar members (m >= 1)
IsFlatObject(e) ==
    LET c == Compact(e)
        m == (Len(c) - 1) \div 4
    IN  /\ Len(c) >= 5
        /\ Len(c) = 4 * m + 1
        /\ c[1] = "{"
        /\ c[Len(c)] = "}"
        /\ \A k \in 1..m : c[4 * k - 2] \in JSONStrings /\ c[4 * k - 1] = ":"
        /\ \A k \in 1..(m - 1) : c[4 * k + 1] = ","

\* the keys of a flat object text, in order, and the text of the value of member k
ObjKeys(e) == [k \in 1..((Len(Compact(e)) - 1) \div 4) |-> Compact(e)[4 * k - 2]]

ObjValue(e, k) == Compact(e)[4 * k]

\* the nesting depth of position i inside the outermost brackets of t
DepthAt(t, i) ==
    Cardinality({j \in 2..(i - 1) : t[j] \in {"{", "["}})
    - Cardinality({j \in 2..(i - 1) : t[j] \in {"}", "]"}})

\* the positions of the top-level keys of the object text t
TopKeyPos(t) ==
    {i \in 2..(Len(t) - 1) : DepthAt(t, i) = 0 /\ t[i] \in JSONStrings /\ t[i + 1] = ":"}

\* the text of the value of the last top-level key of the object text t
LastValue(t) ==
    LET p == CHOOSE i \in TopKeyPos(t) : \A j \in TopKeyPos(t) : j <= i
    IN  SubSeq(t, p + 2, Len(t) - 1)

LastKey(t) == t[CHOOSE i \in TopKeyPos(t) : \A j \in TopKeyPos(t) : j <= i]

----------------------------------------------------------------------------
(* Properties of the chart builder, under Spec *)

RejectedCall ==
    \/ ret'.op = "AddXAxis" /\ ret'.axis.Position \in {Left, Right}
    \/ ret'.op = "AddYAxis" /\ ret'.axis.Position \in {Top, Bottom}

\* C1: a call of AddXAxis with Position Left or Right, or of AddYAxis with Position
\* Top or Bottom, returns an error and leaves Options.Scales (nil or not, its keys
\* and every stored axis) and Data.Datasets as they were, whatever the axis ID.
C1_RejectedAxisLeavesChart ==
    [][RejectedCall =>
          /\ ret'.err # NoErr
          /\ ret'.id = ""
          /\ ScalesNil' = ScalesNil
          /\ Scales' = Scales
          /\ Datasets' = Datasets]_vars

\* an AddXAxis with an empty ID and Position Left was rejected on a chart that
\* holds a dataset and an axis
C1_Witness ==
    /\ ret.op = "AddXAxis"
    /\ ret.axis = [ID |-> "", Position |-> Left]
    /\ ret.err = ErrXAxis
    /\ ~ScalesNil
    /\ Len(Datasets) > 0

\* the call in ret succeeded, returned id and stored its axis under id
Stored(id) ==
    /\ ret.err = NoErr
    /\ ret.id = id
    /\ ~ScalesNil
    /\ id \in DOMAIN Scales
    /\ Scales[id] = [ID |-> id, Position |-> ret.axis.Position]

\* C2: an AddXAxis whose position is not Left or Right, and an AddYAxis whose
\* position is not Top or Bottom, returns "x" respectively "y" for an empty ID and
\* the given ID otherwise, with a nil error, and Scales then holds the given axis
\* under that ID, with its ID field equal to the key.
C2_ResolvedIDStored ==
    /\ (ret.op = "AddXAxis" /\ ret.axis.Position \notin {Left, Right})
          => Stored(IF ret.axis.ID = "" THEN "x" ELSE ret.axis.ID)
    /\ (ret.op = "AddYAxis" /\ ret.axis.Position \notin {Top, Bottom})
          => Stored(IF ret.axis.ID = "" THEN "y" ELSE ret.axis.ID)

\* an AddYAxis with an empty ID succeeded after an AddXAxis with an empty ID
C2_Witness ==
    /\ ret.op = "AddYAxis"
    /\ ret.axis.ID = ""
    /\ ret.err = NoErr
    /\ DOMAIN Scales = {"x", "y"}

\* the axis of the most recent successful add under the ID k
LastAdded(k) ==
    added[CHOOSE i \in 1..Len(added) :
            /\ added[i].axis.ID = k
            /\ \A j \in (i + 1)..Len(added) : added[j].axis.ID # k].axis

\* C3: Scales has exactly one entry per ID that was successfully added, and each
\* entry is the axis of the most recent successful add under that ID, whichever of
\* AddAxis, AddXAxis and AddYAxis made it: the last write wins, and an add changes
\* no entry under another key.
C3_LastWriteWins ==
    /\ DOMAIN Scales = {added[i].axis.ID : i \in 1..Len(added)}
    /\ \A k \in DOMAIN Scales : Scales[k] = LastAdded(k)

\* an AddYAxis under the ID "a" overwrote the axis an AddXAxis had stored there
C3_Witness ==
    /\ Len(added) = 2
    /\ added[1].op = "AddXAxis" /\ added[1].axis = [ID |-> "a", Position |-> Top]
    /\ added[2].op = "AddYAxis" /\ added[2].axis = [ID |-> "a", Position |-> Left]
    /\ DOMAIN Scales = {"a"}
    /\ Scales["a"] = added[2].axis

\* C4: Data.Datasets is the sequence of the AddDataset arguments in call order:
\* every AddDataset appends its argument, unvalidated, and nothing else (no axis
\* call, successful or failing) changes the sequence.
C4_DatasetsInCallOrder == Datasets = dsLog

\* the same dataset with a nil payload was added twice, and a failing axis call
\* followed
C4_Witness ==
    /\ Len(Datasets) = 2
    /\ Datasets[1] = Datasets[2]
    /\ Datasets[2].Data = NilPayload
    /\ ret.op = "AddYAxis"
    /\ ret.err = ErrYAxis

----------------------------------------------------------------------------
(* Properties of marshalValuesJSON, under SpecValues *)

LenX == Len(arg.v.X)
LenY == Len(arg.v.Y)
LenR == Len(arg.v.R)

\* marshalValuesJSON has returned, and without an error
Returned == arg.fn = "marshalValuesJSON" /\ res.done

Encoded == Returned /\ res.out.err = NoErr

\* the error kinds of the specification
InvalidShape == {ErrBadValues}
ShapeMismatch == {ErrRLength, ErrXYLength}

\* C5, as claimed: encoding fails, with no bytes, when X is empty and R is not
\* (InvalidShape), when R is non-empty and X, Y, R are not of one length
\* (ShapeMismatch), and when Y is non-empty and X and Y differ in length
\* (ShapeMismatch); in every other case it succeeds.
C5_FailsOnAnyLengthDifference ==
    Returned =>
        /\ (LenX = 0 /\ LenR # 0) => res.out.err \in InvalidShape
        /\ (LenX # 0 /\ LenR # 0 /\ ~(LenX = LenY /\ LenX = LenR))
              => res.out.err \in ShapeMismatch
        /\ (LenY # 0 /\ LenX # LenY) => res.out.err # NoErr
        /\ res.out.err # NoErr
              <=> \/ LenX = 0 /\ LenR # 0
                  \/ LenR # 0 /\ ~(LenX = LenY /\ LenX = LenR)
                  \/ LenY # 0 /\ LenX # LenY
        /\ res.out.err # NoErr => res.out.bytes = <<>>

\* C5, amended: the third case needs a non-empty X. With X and R empty the Y
\* sequence stands for X and encoding succeeds whatever the length of Y.
C5_FailsOnShape ==
    Returned =>
        /\ (LenX = 0 /\ LenR # 0) => res.out.err \in InvalidShape
        /\ (LenX # 0 /\ LenR # 0 /\ ~(LenX = LenY /\ LenX = LenR))
              => res.out.err \in ShapeMismatch
        /\ (LenX # 0 /\ LenR = 0 /\ LenY # 0 /\ LenX # LenY)
              => res.out.err \in ShapeMismatch
        /\ res.out.err # NoErr
              <=> \/ LenX = 0 /\ LenR # 0
                  \/ LenR # 0 /\ ~(LenX = LenY /\ LenX = LenR)
                  \/ LenX # 0 /\ LenY # 0 /\ LenX # LenY
        /\ res.out.err # NoErr => res.out.bytes = <<>>

\* X and R are empty, Y is not, and the encoding succeeded
C5_Witness ==
    /\ Encoded
    /\ LenX = 0 /\ LenR = 0 /\ LenY = MaxLen
    /\ res.out.bytes # <<>>

\* the text that encodes the Y coordinate of the point in element e: the value of
\* its "y" member, or the element itself when it is a bare number
YText(e) ==
    IF e[1] # "{" THEN e[1]
    ELSE IF Len(ObjKeys(e)) >= 2 /\ ObjKeys(e)[2] = "\"y\"" THEN ObjValue(e, 2)
    ELSE ""

\* C6: whenever the encoding of a payload with a non-empty Y succeeds, every point
\* with a NaN Y is encoded with null for y, every other point with its formatted
\* number, and x and r are written as for any point: null stands exactly where Y
\* is NaN.
C6_NullExactlyAtNaN ==
    (Encoded /\ LenY > 0) =>
        LET es == Elements(res.out.bytes)
        IN  /\ Len(es) = LenY
            /\ \A i \in 1..LenY :
                 /\ es[i] # <<>>
                 /\ IsNaN(arg.v.Y[i]) <=> YText(es[i]) = "null"
                 /\ ~IsNaN(arg.v.Y[i]) =>
                        YText(es[i]) \in {Sprintf(arg.yformat, arg.v.Y[i]),
                                          Sprintf(arg.xformat, arg.v.Y[i])}
                 /\ es[i][1] = "{" =>
                        /\ IsFlatObject(es[i])
                        /\ ObjValue(es[i], 1) = Sprintf(arg.xformat, arg.v.X[i])
                        /\ LenR > 0 => ObjValue(es[i], 3) = Sprintf(arg.yformat, arg.v.R[i])

\* the form of the elements: "xyr", "xy" or "bare"
Form == IF LenR > 0 THEN "xyr" ELSE IF LenX > 0 /\ LenY > 0 THEN "xy" ELSE "bare"

\* the sequence written as x: X, or Y when X is empty
XSource == IF LenX = 0 THEN arg.v.Y ELSE arg.v.X

\* C9: a successful encoding is one JSON array of Len(X) objects with the keys
\* x, y, r when R is non-empty, else of Len(X) objects with the keys x, y when X
\* and Y are non-empty, else of Len(X) bare numbers in the X format, where Y stands
\* for X when X and R are empty; in index order, with one comma between two
\* elements and none leading or trailing.
C9_JSONArrayForm ==
    Encoded =>
        LET b == res.out.bytes
            es == Elements(b)
        IN  /\ Len(b) >= 2
            /\ b[1] = "["
            /\ b[Len(b)] = "]"
            /\ ValidJSON(b)
            /\ Len(es) = Len(XSource)
            /\ \A i \in 1..Len(es) :
                 /\ es[i] # <<>>
                 /\ Form = "bare" =>
                        /\ es[i] = <<Sprintf(arg.xformat, XSource[i])>>
                        /\ es[i][1] \in JSONNumbers
                 /\ Form # "bare" =>
                        /\ IsFlatObject(es[i])
                        /\ ObjKeys(es[i]) = (IF Form = "xyr"
                                             THEN <<"\"x\"", "\"y\"", "\"r\"">>
                                             ELSE <<"\"x\"", "\"y\"">>)
                        /\ ObjValue(es[i], 1) = Sprintf(arg.xformat, arg.v.X[i])

----------------------------------------------------------------------------
(* Properties of Dataset.MarshalJSON, under SpecDataset *)

DatasetReturned == arg.fn = "Dataset.MarshalJSON" /\ res.done

\* the Values view of a payload
ValuesOf(data) == [X |-> data.X, Y |-> data.Y, R |-> data.R]

\* the payload of the dataset, encoded on its own by the encoder its capability
\* names: its MarshalJSON, else marshalValuesJSON under the dataset's own format
\* where it has one and the package variable where it has none
OwnEncoding(d) ==
    IF d.Data.raw THEN d.Data.rawOut
    ELSE IF d.Data.values
    THEN marshalValuesJSON(ValuesOf(d.Data),
                           IF d.XFloatFormat # "" THEN d.XFloatFormat ELSE XFloatFormat,
                           IF d.YFloatFormat # "" THEN d.YFloatFormat ELSE YFloatFormat)
    ELSE Ok(<<>>)

\* C7: whatever the styling fields and the payload (a json.Marshaler, a Values, or
\* a value that is neither, such as nil), a successful Dataset.MarshalJSON returns
\* a text that parses as a JSON object with exactly one top-level "data" key,
\* placed last, whose value is the payload encoded on its own.
C7_SpliceIsJSONObject ==
    (DatasetReturned /\ res.out.err = NoErr) =>
        LET b == res.out.bytes
        IN  /\ ValidJSON(b)
            /\ b[1] = "{"
            /\ Cardinality({i \in TopKeyPos(b) : b[i] = "\"data\""}) = 1
            /\ LastKey(b) = "\"data\""
            /\ LastValue(b) = OwnEncoding(arg.d).bytes

\* C10: a payload that is a json.Marshaler is encoded by its own MarshalJSON,
\* verbatim, also when it is a Values too; only otherwise a Values payload is
\* encoded by marshalValuesJSON, under the dataset's own X and Y format where
\* non-empty and the package variable otherwise. An error of that encoder is
\* returned as it is, with no bytes.
C10_EncoderPriority ==
    (DatasetReturned /\ (arg.d.Data.raw \/ arg.d.Data.values)) =>
        LET o == OwnEncoding(arg.d)
        IN  /\ o.err # NoErr => res.out = Failed(o.err)
            /\ o.err = NoErr =>
                  /\ res.out.err = NoErr
                  /\ LastKey(res.out.bytes) = "\"data\""
                  /\ LastValue(res.out.bytes) = o.bytes

\* a payload with both capabilities, whose Values encoding would fail, was encoded
\* by its own MarshalJSON
C10_Witness ==
    /\ DatasetReturned
    /\ arg.d.Data.raw /\ arg.d.Data.values
    /\ marshalValuesJSON(ValuesOf(arg.d.Data), "%.2f", "%.2f").err = ErrBadValues
    /\ res.out.err = NoErr
    /\ LastValue(res.out.bytes) = <<"[", "1", ",", "2", "]">>

----------------------------------------------------------------------------
(* Properties of encoding a chart, under SpecEncode *)

\* the step is an encode that follows an encode, with no builder call in between
SecondEncode == lastEnc.done /\ ret'.op = "Marshal"

\* C8, as claimed: an encode leaves the chart as it is, and two encodes with no
\* builder call in between return the same bytes or the same error, whatever else
\* happens in the process between them.
C8_SameOutputWhateverHappens ==
    [][/\ ret'.op = "Marshal" => (Datasets' = Datasets /\ Scales' = Scales
                                    /\ ScalesNil' = ScalesNil)
       /\ SecondEncode => lastEnc'.out = lastEnc.out]_vars

\* C8, amended: an encode leaves the chart as it is, and two encodes with no
\* builder call and no assignment that changes XFloatFormat or YFloatFormat in
\* between return the same bytes or the same error.
C8_SameOutputUnderSameFormats ==
    [][/\ ret'.op = "Marshal" => (Datasets' = Datasets /\ Scales' = Scales
                                    /\ ScalesNil' = ScalesNil)
       /\ (SecondEncode /\ lastEnc.xf = XFloatFormat /\ lastEnc.yf = YFloatFormat)
             => lastEnc'.out = lastEnc.out]_vars

\* a chart with a Values dataset and an axis was encoded twice in a row, with
\* success, after XFloatFormat had been assigned
C8_Witness ==
    /\ ret.op = "Marshal"
    /\ lastEnc.done
    /\ lastEnc.stable
    /\ lastEnc.out.err = NoErr
    /\ XFloatFormat # DefaultXFloatFormat
    /\ \E i \in 1..Len(Datasets) : Datasets[i].Data.values
    /\ ~ScalesNil

====
